---- MODULE Spec2Model ----
(***************************************************************************)
(* cargo-free: src/lib.rs.  A caller invokes check_availability or         *)
(* check_availability_with_timeout; the function validates the name,       *)
(* formats the crates.io URL, dispatches one ureq GET bounded by the       *)
(* timeout, and maps the status of the Response that ureq hands back to an *)
(* Availability.                                                           *)
(*                                                                         *)
(* Strings are sequences of one-character strings.  Durations are whole    *)
(* seconds.  Optional values are sequences of length 0 or 1.               *)
(*                                                                         *)
(* ureq is a library outside the repository; line 77 reads status() off    *)
(* what call() returns, so call() returns a Response and never a Result.   *)
(* What the model takes from it: call() blocks until a response arrives,   *)
(* the transport fails, or the request's timeout elapses; in the last two  *)
(* cases it returns a synthetic Response whose status is an error status   *)
(* (400 or 500).                                                           *)
(***************************************************************************)
EXTENDS Integers, Sequences, FiniteSets

VARIABLES
    pc,       \* "idle" | "inflight" (blocked inside call()) | "returned"
    entry,    \* which public function the caller entered: "default" | "explicit"
    name,     \* argument name of the current call
    timeout,  \* argument timeout of check_availability_with_timeout
    sent,     \* the GET requests dispatched by the current call, in order
    elapsed,  \* seconds the current request has been in flight
    resp,     \* <<>> or <<the Response call() returned>>
    result,   \* the value most recently returned to the caller
    seen      \* <<>> or <<one earlier completed call, as the caller saw it>>

vars == <<pc, entry, name, timeout, sent, elapsed, resp, result, seen>>

----------------------------------------------------------------------------
(* Bounds of the model *)

MaxLen == 1

MaxTimeout == 1

(* Program constant *)

TIMEOUT == 5

----------------------------------------------------------------------------
(* Input domains *)

Chars == {"a", "/"}

SeqsUpTo(S, n) == UNION {[1..k -> S] : k \in 0..n}

Names == SeqsUpTo(Chars, MaxLen)

Duration_from_secs(secs) == secs

Timeouts == (0..MaxTimeout) \cup {Duration_from_secs(TIMEOUT)}

\* Statuses a registry can answer with: taken, free, other 2xx, redirect,
\* other 4xx, 5xx.
Statuses == {200, 404, 201, 301, 403, 500}

\* Statuses of ureq's synthetic error responses.
SyntheticStatuses == {400, 500}

----------------------------------------------------------------------------
(* Values *)

Ok(a) == [tag |-> "Ok", val |-> a]

Err == [tag |-> "Err", val |-> "()"]

NoResult == [tag |-> "None", val |-> "-"]

\* A ureq Response: error is "none" for a response the registry sent, and
\* names the failure for a synthetic one.
Response(err, st) == [error |-> err, status |-> st]

----------------------------------------------------------------------------
(* The function body, piece by piece *)

\* Variant: the emptiness check is missing.
IsEmptyNever(n) == FALSE

\* name.is_empty()
IsEmpty(n) == Len(n) = 0

UrlPrefix ==
    << "h","t","t","p","s",":","/","/","c","r","a","t","e","s",".","i","o",
       "/","a","p","i","/","v","1","/","c","r","a","t","e","s","/" >>

\* Variant: the name is percent-encoded as one path segment.
PercentEncode(c) == IF c = "/" THEN <<"%", "2", "F">> ELSE <<c>>

RECURSIVE EncodeSegment(_)
EncodeSegment(n) ==
    IF Len(n) = 0 THEN <<>> ELSE PercentEncode(Head(n)) \o EncodeSegment(Tail(n))

FormatEncoded(n) == UrlPrefix \o EncodeSegment(n)

\* format!("https://crates.io/api/v1/crates/{}", name)
Format(n) == UrlPrefix \o n

\* Variant: TIMEOUT taken as milliseconds.
DefaultTimeoutMillis == Duration_from_secs(TIMEOUT \div 1000)

\* Duration::from_secs(TIMEOUT)
DefaultTimeout == Duration_from_secs(TIMEOUT)

\* Variant: the request is bounded by the default, not by the argument.
GetDefaultTimeout(log, url, t) ==
    Append(log, [url |-> url, timeout |-> DefaultTimeout])

\* Variant: the request is sent a second time.
GetTwice(log, url, t) ==
    Append(Append(log, [url |-> url, timeout |-> t]), [url |-> url, timeout |-> t])

\* ureq::get(&url).timeout(timeout).call(): one GET goes out
Get(log, url, t) == Append(log, [url |-> url, timeout |-> t])

\* Variant: the 200 and 404 arms are exchanged.
MatchSwapped(status) ==
    CASE status = 200 -> "Available"
      [] status = 404 -> "Unavailable"
      [] OTHER -> "Unknown"

\* Variant: the 404 arm is missing.
MatchGoneIsUnknown(status) ==
    CASE status = 200 -> "Unavailable"
      [] OTHER -> "Unknown"

\* Variant: every 2xx status counts as taken.
MatchAny2xx(status) ==
    CASE status \div 100 = 2 -> "Unavailable"
      [] status = 404 -> "Available"
      [] OTHER -> "Unknown"

\* match resp.status() { 200 => .., 404 => .., _ => .. }
Match(status) ==
    CASE status = 200 -> "Unavailable"
      [] status = 404 -> "Available"
      [] OTHER -> "Unknown"

\* Variant: a synthetic Response is propagated as Err.
ReturnErrOnFailure(r) == IF r.error # "none" THEN Err ELSE Ok(Match(r.status))

\* Variant: an Unknown returned earlier is kept for later calls.
ReturnStickyUnknown(r) ==
    IF result = Ok("Unknown") THEN result ELSE Ok(Match(r.status))

\* let availability = match ..; Ok(availability)
Return(r) == Ok(Match(r.status))

----------------------------------------------------------------------------
(* State machine *)

Init ==
    /\ pc = "idle"
    /\ entry = "explicit"
    /\ name = <<>>
    /\ timeout = 0
    /\ sent = <<>>
    /\ elapsed = 0
    /\ resp = <<>>
    /\ result = NoResult
    /\ seen = <<>>

\* check_availability_with_timeout up to the point where call() blocks, or
\* up to the early return.
Enter(e, n, t) ==
    /\ pc \in {"idle", "returned"}
    /\ entry' = e
    /\ name' = n
    /\ timeout' = t
    /\ elapsed' = 0
    /\ resp' = <<>>
    /\ IF IsEmpty(n)
         THEN /\ sent' = <<>>
              /\ result' = Err
              /\ pc' = "returned"
         ELSE /\ sent' = Get(<<>>, Format(n), t)
              /\ result' = result
              /\ pc' = "inflight"
    /\ UNCHANGED seen

check_availability == \E n \in Names : Enter("default", n, DefaultTimeout)

check_availability_with_timeout ==
    \E n \in Names, t \in Timeouts : Enter("explicit", n, t)

\* The deadline ureq enforces is the timeout set on the request.
Deadline == sent[Len(sent)].timeout

\* call() came back with r: the match and the Ok(..) run, the function returns.
Finish(r) ==
    /\ resp' = <<r>>
    /\ result' = Return(r)
    /\ pc' = "returned"
    /\ UNCHANGED <<entry, name, timeout, sent, elapsed, seen>>

\* One second passes while call() blocks.
Tick ==
    /\ pc = "inflight"
    /\ elapsed < Deadline
    /\ elapsed' = elapsed + 1
    /\ UNCHANGED <<pc, entry, name, timeout, sent, resp, result, seen>>

\* The registry answers.
Respond ==
    /\ pc = "inflight"
    /\ \E s \in Statuses : Finish(Response("none", s))

\* DNS failure, connection refused, TLS failure.
TransportFail ==
    /\ pc = "inflight"
    /\ \E s \in SyntheticStatuses : Finish(Response("transport", s))

\* The request's timeout elapses without an answer.
Expire ==
    /\ pc = "inflight"
    /\ elapsed >= Deadline
    /\ \E s \in SyntheticStatuses : Finish(Response("timeout", s))

\* What the caller saw of the call that just returned.
Outcome ==
    [entry |-> entry, name |-> name, timeout |-> timeout, resp |-> resp,
     sent |-> sent, result |-> result]

\* The caller keeps the outcome of one completed call to compare later calls
\* against.
Observe ==
    /\ pc = "returned"
    /\ seen = <<>>
    /\ seen' = <<Outcome>>
    /\ UNCHANGED <<pc, entry, name, timeout, sent, elapsed, resp, result>>

Calls ==
    \/ check_availability
    \/ check_availability_with_timeout
    \/ Tick
    \/ Respond
    \/ TransportFail
    \/ Expire

Next == Calls \/ Observe

Spec == Init /\ [][Next]_vars

\* Time passes and ureq enforces the deadline; the registry owes nothing.
FairSpec == Init /\ [][Calls]_vars /\ WF_vars(Tick) /\ WF_vars(Expire)

----------------------------------------------------------------------------
(* Properties *)

Returned == pc = "returned"

NonEmpty == Len(name) > 0

\* The registry's own answer to the current call carried status s.
Answered(s) == Returned /\ NonEmpty /\ resp = <<Response("none", s)>>

\* C1: a call with the empty name, through either entry point and with any
\* timeout, returns Err and dispatches no request: it never blocks in
\* call(), its request log is empty and no Response exists.
C1_EmptyNameRejectedBeforeNetwork ==
    (pc # "idle" /\ Len(name) = 0) =>
        /\ pc = "returned"
        /\ result = Err
        /\ Len(sent) = 0
        /\ resp = <<>>

C1_Witness ==
    /\ Returned
    /\ Len(name) = 0
    /\ entry = "explicit"
    /\ timeout = 1
    /\ result = Err

\* C2: a non-empty name answered with status 200 returns Ok(Unavailable),
\* whatever the timeout.
C2_Status200IsUnavailable == Answered(200) => result = Ok("Unavailable")

C2_Witness == Answered(200) /\ entry = "explicit" /\ timeout = 0

\* C3: a non-empty name answered with status 404 returns Ok(Available),
\* whatever the timeout.
C3_Status404IsAvailable == Answered(404) => result = Ok("Available")

C3_Witness == Answered(404) /\ entry = "default"

\* C4: a non-empty name answered with any status other than 200 and 404
\* returns Ok(Unknown), and no answered call returns Err.
C4_OtherStatusIsUnknown ==
    \A s \in Statuses :
        Answered(s) =>
            /\ result.tag = "Ok"
            /\ (s \notin {200, 404} => result = Ok("Unknown"))

C4_Witness == Answered(201) /\ result = Ok("Unknown")

\* C5: a non-empty name whose request timed out or failed in transport
\* returns Ok(Unknown); a returned call has result Err only when its name
\* is empty.
C5_FailureIsUnknownNotErr ==
    Returned =>
        /\ (NonEmpty /\ Len(resp) = 1 /\ resp[1].error # "none"
                => result = Ok("Unknown"))
        /\ (result = Err => Len(name) = 0)

C5_Witness ==
    /\ Returned
    /\ NonEmpty
    /\ resp = <<Response("transport", 400)>>
    /\ result = Ok("Unknown")

C7_TimeoutArgumentBoundsCall ==
    /\ []((pc # "idle" /\ NonEmpty) =>
            /\ sent[1].timeout = timeout
            /\ elapsed <= timeout)
    /\ (pc = "inflight" ~> pc = "returned")

C7_Witness ==
    /\ Returned
    /\ NonEmpty
    /\ entry = "explicit"
    /\ timeout = 1
    /\ elapsed = 1
    /\ resp = <<Response("timeout", 500)>>

FiveSeconds == Duration_from_secs(5)

\* The current call and the remembered one are the two entry points, the
\* explicit one with five seconds, on the same name with the same registry
\* behaviour.
SameCallBothEntries(a, b) ==
    /\ a.entry = "default"
    /\ b.entry = "explicit"
    /\ b.timeout = FiveSeconds
    /\ a.name = b.name
    /\ a.resp = b.resp

\* C8: check_availability(name) and check_availability_with_timeout(name,
\* 5 s), given the same registry behaviour, return the same result and
\* dispatch the same requests (same number, same URL, same timeout).
C8_DefaultEqualsExplicitFive ==
    (Returned /\ Len(seen) = 1) =>
        ((SameCallBothEntries(seen[1], Outcome)
            \/ SameCallBothEntries(Outcome, seen[1]))
          => /\ seen[1].result = result
             /\ seen[1].sent = sent)

C8_Witness ==
    /\ Returned
    /\ Len(seen) = 1
    /\ SameCallBothEntries(seen[1], Outcome)
    /\ NonEmpty
    /\ resp = <<Response("none", 404)>>

\* C9: a call returns the same result as any earlier call that had the same
\* name and got the same response, whatever calls came in between.
C9_ResultIndependentOfHistory ==
    (Returned /\ Len(seen) = 1) =>
        ((seen[1].name = name /\ seen[1].resp = resp)
            => seen[1].result = result)

C9_Witness ==
    /\ Returned
    /\ Len(seen) = 1
    /\ NonEmpty
    /\ seen[1].name = name
    /\ seen[1].resp = resp
    /\ resp = <<Response("none", 200)>>
    /\ seen[1].timeout # timeout

ClaimedPrefix ==
    << "h","t","t","p","s",":","/","/","c","r","a","t","e","s",".","i","o",
       "/","a","p","i","/","v","1","/","c","r","a","t","e","s","/" >>

\* C10: the URL of the request is the prefix
\* https://crates.io/api/v1/crates/ followed by the characters of the name
\* unchanged (a '/' of the name is a '/' of the URL), and two calls with
\* distinct non-empty names request distinct URLs.
C10_UrlIsPrefixThenNameVerbatim ==
    (pc # "idle" /\ NonEmpty) =>
        LET u == sent[1].url
            k == Len(ClaimedPrefix)
        IN  /\ Len(u) = k + Len(name)
            /\ SubSeq(u, 1, k) = ClaimedPrefix
            /\ \A i \in 1..Len(name) : u[k + i] = name[i]
            /\ (Len(seen) = 1 /\ Len(seen[1].name) > 0 /\ seen[1].name # name
                    => seen[1].sent[1].url # u)

C10_Witness ==
    /\ Returned
    /\ name = <<"/">>
    /\ Len(seen) = 1
    /\ seen[1].name = <<"a">>
    /\ sent[1].url[Len(sent[1].url)] = "/"

====
